---- MODULE Spec2Model ----
(***************************************************************************)
(* Model of docs/.vitepress/utils/generateSidebar.ts: the build-time       *)
(* generator that scans the numbered markdown files of a collection        *)
(* directory, gives each file an 8-character identifier (the head of the   *)
(* MD5 digest of its path) and derives the sidebar, the first-article link *)
(* and the URL rewrite table from it.                                      *)
(*                                                                         *)
(* File names, paths, labels, identifiers and links are TLA+ strings, and  *)
(* the string operations of the source (regular expression match,          *)
(* endsWith, split/slice/join, replace, template literals) are computed    *)
(* on them character by character.                                         *)
(***************************************************************************)
EXTENDS Naturals, Integers, Sequences, FiniteSets, TLC

VARIABLES
    cwd,            \* process.cwd(), fixed for the life of the process
    fs,             \* the file tree: full path of a collection -> node
    routeMappings,  \* the module-level record of line 22, keys in insertion order
    ret,            \* the outcome of the most recent exported call
    dumpFile,       \* route-mappings.json as it is on disk
    pc,             \* how far the evaluation of the config module has come
    config          \* what the config module has computed so far

vars == <<cwd, fs, routeMappings, ret, dumpFile, pc, config>>

(***************************************************************************)
(* Bounds of the model.                                                    *)
(***************************************************************************)
\* Longest directory listing of a build (specification SpecBuild).
MaxFiles == 3
\* Longest directory listing while the tree is edited (specification Spec).
MaxTreeFiles == 2
\* Most mappings held under one route prefix; scans that would exceed it are not taken.
MaxMappings == 3

(***************************************************************************)
(* Strings.                                                                *)
(***************************************************************************)
CharAt(s, i) == SubSeq(s, i, i)

\* String.prototype.endsWith
EndsWith(s, suffix) ==
    /\ Len(s) >= Len(suffix)
    /\ SubSeq(s, Len(s) - Len(suffix) + 1, Len(s)) = suffix

\* String.prototype.startsWith
StartsWith(s, prefix) ==
    /\ Len(s) >= Len(prefix)
    /\ SubSeq(s, 1, Len(prefix)) = prefix

\* The characters \d matches.
Digit == {"0", "1", "2", "3", "4", "5", "6", "7", "8", "9"}

\* The characters "." does not match in a regular expression without the s flag.
LineTerminator == {"\n", "\r"}

DigitValue(c) ==
    CASE c = "0" -> 0 [] c = "1" -> 1 [] c = "2" -> 2 [] c = "3" -> 3
      [] c = "4" -> 4 [] c = "5" -> 5 [] c = "6" -> 6 [] c = "7" -> 7
      [] c = "8" -> 8 [] c = "9" -> 9

\* The number of consecutive digits of s from position i on.
RECURSIVE DigitRun(_, _)
DigitRun(s, i) ==
    IF i <= Len(s) /\ CharAt(s, i) \in Digit
    THEN 1 + DigitRun(s, i + 1)
    ELSE 0

\* parseInt(digits, 10) of a string of decimal digits.
RECURSIVE parseInt(_)
parseInt(digits) ==
    IF digits = ""
    THEN 0
    ELSE 10 * parseInt(SubSeq(digits, 1, Len(digits) - 1))
         + DigitValue(CharAt(digits, Len(digits)))

\* path.resolve(process.cwd(), dirPath) for a path without "." segments.
ResolvePath(base, p) ==
    IF StartsWith(p, "/") THEN p ELSE base \o "/" \o p

(***************************************************************************)
(* generateHash: crypto.createHash('md5').update(filePath).digest('hex'),  *)
(* cut to its first 8 characters.  Md5Hex is the MD5 digest itself on the  *)
(* paths the model hashes.                                                 *)
(***************************************************************************)
Md5Hex(filePath) ==
    CASE filePath = "docs/interview/1.Alpha.md" -> "4d6ac02c69be60e5531f9df0903f4bf3"
      [] filePath = "docs/interview/01.Alpha.md" -> "a06037d8a0ba84761e8540a94462a87e"
      [] filePath = "docs/interview/10.Gamma.md" -> "04877a99448c4363fb289bac00f59b4e"
      [] filePath = "docs/interview/2.VVO.md" -> "ccbfb42e44508f25cf34f774e70b59e7"
      [] filePath = "docs/interview/9.OMR.md" -> "ccbfb42eebf6d65ce71ad31a50f181b9"
      [] filePath = "docs/interview/index.md" -> "cce6915ba69cc026cdc33b181c694d38"
      [] filePath = "docs/interview/3.C.txt" -> "56786b6857e2f5654978bc9df92c4b59"
      [] filePath = "docs/interview/4..md" -> "999d5f99a4e9675ded427002dea7c545"
      [] filePath = "docs/interview/a1.X.md" -> "ddb3380388daa2ee5432172be7f2fa3e"
      [] filePath = "docs/interview/5.a\nb.md" -> "37f094738abb65bcf84c227fe06675b1"
      [] filePath = "docs/vue3-best-practices/1.Alpha.md" -> "5ea2ec2dbf28058c2acb67b91dbf0ef6"
      [] filePath = "docs/vue3-best-practices/01.Alpha.md" -> "eb854f952ccc26e6bd37bed65cdd75be"
      [] filePath = "docs/vue3-best-practices/10.Gamma.md" -> "096e5e978e84c4ebfe461b073efe3c18"
      [] filePath = "docs/vue3-best-practices/2.VVO.md" -> "bd742d30a522055ef6b4e9710f2cc2de"
      [] filePath = "docs/vue3-best-practices/9.OMR.md" -> "21c497565bffd933bad7b31c091e022a"
      [] filePath = "docs/vue3-best-practices/index.md" -> "72f42870e94446032f1074ce67c6a519"
      [] filePath = "docs/vue3-best-practices/3.C.txt" -> "d2961d29fddfcf850dff2cb61d2e8aec"
      [] filePath = "docs/vue3-best-practices/4..md" -> "1df17f38b4b3a9af4b6cabd5d9e84cbd"
      [] filePath = "docs/vue3-best-practices/a1.X.md" -> "ca3620328ad21be64da5384dcdd52718"
      [] filePath = "docs/vue3-best-practices/5.a\nb.md" -> "951dc8333b67c56c45c6e15c027e0e07"
      [] filePath = "docs/vue3-best-practices/2. B.c .md" -> "b97f80b0ee65bde6f5704f9678401d5f"
      [] filePath = "docs/interview/7.LPB.md" -> "a9bd5f056cbabd87f069aada17deb4af"
      [] filePath = "docs/vue3-best-practices/1.YIA.md" -> "a9bd5f05c665ea93af8603de894d38bc"
      [] filePath = "" -> "d41d8cd98f00b204e9800998ecf8427e"

\* The digest used whole.
generateHashUncut(filePath) == Md5Hex(filePath)

generateHash(filePath) == SubSeq(Md5Hex(filePath), 1, 8)

(***************************************************************************)
(* parseFileName.                                                          *)
(***************************************************************************)
\* A match whose label group is trimmed of a leading and a trailing space.
FileNameMatchTrimmed(filename) ==
    LET k == DigitRun(filename, 1)
        n == Len(filename)
        from == IF CharAt(filename, k + 2) = " " /\ n >= k + 6 THEN k + 3 ELSE k + 2
        to == IF CharAt(filename, n - 3) = " " /\ n - 4 >= from THEN n - 4 ELSE n - 3
    IN  IF /\ k >= 1
           /\ n >= k + 5
           /\ CharAt(filename, k + 1) = "."
           /\ EndsWith(filename, ".md")
           /\ \A i \in (k + 2)..(n - 3) : CharAt(filename, i) \notin LineTerminator
        THEN [matched |-> TRUE,
              g1 |-> SubSeq(filename, 1, k),
              g2 |-> SubSeq(filename, from, to)]
        ELSE [matched |-> FALSE, g1 |-> "", g2 |-> ""]

\* filename.match(/^(\d+)\.(.+)\.md$/): \d+ takes the whole leading run of
\* digits (the next character must be the dot), .+ takes at least one
\* character, none of them a line terminator, and \.md$ the last three.
FileNameMatch(filename) ==
    LET k == DigitRun(filename, 1)
        n == Len(filename)
    IN  IF /\ k >= 1
           /\ n >= k + 5
           /\ CharAt(filename, k + 1) = "."
           /\ EndsWith(filename, ".md")
           /\ \A i \in (k + 2)..(n - 3) : CharAt(filename, i) \notin LineTerminator
        THEN [matched |-> TRUE,
              g1 |-> SubSeq(filename, 1, k),
              g2 |-> SubSeq(filename, k + 2, n - 3)]
        ELSE [matched |-> FALSE, g1 |-> "", g2 |-> ""]

\* The value parseFileName returns; matched = FALSE stands for null.
NoParse == [matched |-> FALSE, order |-> 0, text |-> "", hash |-> ""]

\* A parseFileName that keeps a registry: a name already registered under
\* any collection gets the identifier registered there.
parseFileNameRegistered(filename, dirPath) ==
    LET match == FileNameMatch(filename)
        known == {m \in UNION {{routeMappings[i].mappings[j] :
                                   j \in 1..Len(routeMappings[i].mappings)} :
                               i \in 1..Len(routeMappings)} :
                     m.originalPath = SubSeq(filename, 1, Len(filename) - 3)}
    IN  IF ~match.matched
        THEN NoParse
        ELSE [matched |-> TRUE,
              order |-> parseInt(match.g1),
              text |-> match.g2,
              hash |-> IF known # {}
                       THEN (CHOOSE m \in known : TRUE).hash
                       ELSE generateHash(dirPath \o "/" \o filename)]

parseFileName(filename, dirPath) ==
    LET match == FileNameMatch(filename)
    IN  IF ~match.matched
        THEN NoParse
        ELSE [matched |-> TRUE,
              order |-> parseInt(match.g1),
              text |-> match.g2,
              hash |-> generateHash(dirPath \o "/" \o filename)]

(***************************************************************************)
(* The file tree.  A node is absent, a directory with its entries in the   *)
(* order readdirSync enumerates them, or a regular file.                   *)
(***************************************************************************)
AbsentNode == [kind |-> "absent", files |-> <<>>]
FileNode == [kind |-> "file", files |-> <<>>]
DirNode(files) == [kind |-> "dir", files |-> files]

\* fs.existsSync(fullPath)
existsSync(fullPath) ==
    /\ fullPath \in DOMAIN fs
    /\ fs[fullPath].kind # "absent"

(***************************************************************************)
(* The scan of generateSidebar, lines 69-94.                               *)
(***************************************************************************)
\* A scan that lists every markdown file of the directory.
RECURSIVE CollectItemsAnyMarkdown(_, _)
CollectItemsAnyMarkdown(files, dirPath) ==
    IF files = <<>>
    THEN <<>>
    ELSE LET file == Head(files)
             rest == CollectItemsAnyMarkdown(Tail(files), dirPath)
         IN  IF ~EndsWith(file, ".md") THEN rest
             ELSE <<[order |-> 0,
                     text |-> SubSeq(file, 1, Len(file) - 3),
                     filename |-> file,
                     hash |-> generateHash(dirPath \o "/" \o file)]>> \o rest

\* The loop of lines 75-91 over the listing.
RECURSIVE CollectItems(_, _)
CollectItems(files, dirPath) ==
    IF files = <<>>
    THEN <<>>
    ELSE LET file == Head(files)
             rest == CollectItems(Tail(files), dirPath)
             parsed == parseFileName(file, dirPath)
         IN  IF file = "index.md" THEN rest
             ELSE IF ~EndsWith(file, ".md") THEN rest
             ELSE IF parsed.matched
                  THEN <<[order |-> parsed.order,
                          text |-> parsed.text,
                          filename |-> file,
                          hash |-> parsed.hash]>> \o rest
                  ELSE rest

\* The comparator with its operands exchanged.
CompareOrderDescending(a, b) == b.order - a.order

\* The comparator (a, b) => a.order - b.order of lines 94 and 173.
CompareOrder(a, b) == a.order - b.order

\* An unstable sort: an element goes before its equals.
RECURSIVE InsertSortedBeforeEquals(_, _)
InsertSortedBeforeEquals(sorted, item) ==
    IF sorted = <<>>
    THEN <<item>>
    ELSE IF CompareOrder(Head(sorted), item) >= 0
         THEN <<item>> \o sorted
         ELSE <<Head(sorted)>> \o InsertSortedBeforeEquals(Tail(sorted), item)

\* Array.prototype.sort with that comparator: a stable sort, so an element
\* goes before the first one that compares greater and after its equals.
RECURSIVE InsertSorted(_, _)
InsertSorted(sorted, item) ==
    IF sorted = <<>>
    THEN <<item>>
    ELSE IF CompareOrder(Head(sorted), item) > 0
         THEN <<item>> \o sorted
         ELSE <<Head(sorted)>> \o InsertSorted(Tail(sorted), item)

RECURSIVE SortItems(_)
SortItems(items) ==
    IF items = <<>>
    THEN <<>>
    ELSE InsertSorted(SortItems(SubSeq(items, 1, Len(items) - 1)),
                      items[Len(items)])

\* The position of the first "/" of s, or 0.
RECURSIVE IndexOfSlash(_, _)
IndexOfSlash(s, i) ==
    IF i > Len(s) THEN 0
    ELSE IF CharAt(s, i) = "/" THEN i
    ELSE IndexOfSlash(s, i + 1)

\* '/' + dirPath.split('/').slice(1).join('/'), lines 97 and 177: what
\* follows the first slash of dirPath, or nothing when it has none.
\* A route prefix taken from the resolved path instead of the argument.
RoutePrefixOfFullPath(dirPath) ==
    LET fullPath == ResolvePath(cwd, dirPath)
        i == IndexOfSlash(fullPath, 1)
    IN  "/" \o (IF i = 0 THEN "" ELSE SubSeq(fullPath, i + 1, Len(fullPath)))

RoutePrefix(dirPath) ==
    LET i == IndexOfSlash(dirPath, 1)
    IN  "/" \o (IF i = 0 THEN "" ELSE SubSeq(dirPath, i + 1, Len(dirPath)))

\* filename.replace(/\.md$/, ''), line 112.
StripMd(filename) ==
    IF EndsWith(filename, ".md")
    THEN SubSeq(filename, 1, Len(filename) - 3)
    ELSE filename

(***************************************************************************)
(* routeMappings: a sequence of [key, mappings] in key insertion order,    *)
(* which is the order Object.entries walks the record in.                  *)
(***************************************************************************)
KeyIndex(rm, key) ==
    IF \E i \in 1..Len(rm) : rm[i].key = key
    THEN CHOOSE i \in 1..Len(rm) : rm[i].key = key
    ELSE 0

\* routeMappings[key], the empty sequence standing for undefined as well.
MappingsOf(rm, key) ==
    IF KeyIndex(rm, key) = 0 THEN <<>> ELSE rm[KeyIndex(rm, key)].mappings

\* A registry that is started afresh for the route prefix being scanned.
EnsureKeyFresh(rm, key) ==
    <<[key |-> key, mappings |-> MappingsOf(rm, key)]>>

\* Lines 100-102.
EnsureKey(rm, key) ==
    IF KeyIndex(rm, key) = 0
    THEN Append(rm, [key |-> key, mappings |-> <<>>])
    ELSE rm

\* The mapping pushed for an item, lines 110-114.
MappingOf(item) ==
    [hash |-> item.hash,
     originalPath |-> StripMd(item.filename),
     text |-> item.text]

\* A sidebar item that links to the original path instead of the hash.
SidebarItemOfOriginalPath(item, routePrefix) ==
    [text |-> item.text, link |-> routePrefix \o "/" \o StripMd(item.filename)]

\* The sidebar item returned for an item, lines 107 and 116-119.
SidebarItemOf(item, routePrefix) ==
    LET linkPath == item.hash
    IN  [text |-> item.text, link |-> routePrefix \o "/" \o linkPath]

\* routeMappings after the pushes of items.map, lines 105-114.
PushMappings(rm, key, items) ==
    LET at == KeyIndex(rm, key)
    IN  [rm EXCEPT ![at].mappings =
            @ \o [i \in 1..Len(items) |-> MappingOf(items[i])]]

(***************************************************************************)
(* generateSidebar, lines 60-128, as a function of the routeMappings it    *)
(* starts from: what it returns or throws, what it logs, and the           *)
(* routeMappings it leaves.                                                *)
(***************************************************************************)
\* Lines 73-94: the items array after the sort.
SortedItems(files, dirPath) == SortItems(CollectItems(files, dirPath))

\* Lines 105-120: the array items.map returns.
SidebarItems(items, routePrefix) ==
    [i \in 1..Len(items) |-> SidebarItemOf(items[i], routePrefix)]

\* A generateSidebar without the existsSync check of lines 64-67: readdirSync
\* throws ENOENT for a missing directory.
SidebarCallUnchecked(rm, dirPath, groupText) ==
    LET fullPath == ResolvePath(cwd, dirPath)
    IN  IF ~existsSync(fullPath) \/ fs[fullPath].kind # "dir"
        THEN [status |-> "threw",
              sidebar |-> <<>>,
              items |-> <<>>,
              console |-> <<>>,
              rm |-> rm]
        ELSE LET items == SortedItems(fs[fullPath].files, dirPath)
                 routePrefix == RoutePrefix(dirPath)
             IN  [status |-> "returned",
                  sidebar |-> <<[text |-> groupText,
                                 items |-> SidebarItems(items, routePrefix)]>>,
                  items |-> items,
                  console |-> <<>>,
                  rm |-> PushMappings(EnsureKey(rm, routePrefix), routePrefix, items)]

\* A generateSidebar that initialises routeMappings[routePrefix] before it
\* looks for the directory.
SidebarCallKeyFirst(rm, dirPath, groupText) ==
    LET fullPath == ResolvePath(cwd, dirPath)
        routePrefix == RoutePrefix(dirPath)
    IN  IF ~existsSync(fullPath)
        THEN [status |-> "returned",
              sidebar |-> <<>>,
              items |-> <<>>,
              console |-> <<[level |-> "warn", fullPath |-> fullPath]>>,
              rm |-> EnsureKey(rm, routePrefix)]
        ELSE IF fs[fullPath].kind # "dir"
        THEN [status |-> "threw",
              sidebar |-> <<>>,
              items |-> <<>>,
              console |-> <<>>,
              rm |-> EnsureKey(rm, routePrefix)]
        ELSE LET items == SortedItems(fs[fullPath].files, dirPath)
             IN  [status |-> "returned",
                  sidebar |-> <<[text |-> groupText,
                                 items |-> SidebarItems(items, routePrefix)]>>,
                  items |-> items,
                  console |-> <<>>,
                  rm |-> PushMappings(EnsureKey(rm, routePrefix), routePrefix, items)]

SidebarCall(rm, dirPath, groupText) ==
    LET fullPath == ResolvePath(cwd, dirPath)
    IN  IF ~existsSync(fullPath)
        THEN [status |-> "returned",
              sidebar |-> <<>>,
              items |-> <<>>,
              console |-> <<[level |-> "warn", fullPath |-> fullPath]>>,
              rm |-> rm]
        ELSE IF fs[fullPath].kind # "dir"
        THEN \* readdirSync throws ENOTDIR
             [status |-> "threw",
              sidebar |-> <<>>,
              items |-> <<>>,
              console |-> <<>>,
              rm |-> rm]
        ELSE LET files == fs[fullPath].files
                 items == SortedItems(files, dirPath)
                 routePrefix == RoutePrefix(dirPath)
                 sidebarItems == SidebarItems(items, routePrefix)
             IN  [status |-> "returned",
                  sidebar |-> <<[text |-> groupText, items |-> sidebarItems]>>,
                  items |-> items,
                  console |-> <<>>,
                  rm |-> PushMappings(EnsureKey(rm, routePrefix), routePrefix, items)]

(***************************************************************************)
(* getFirstArticleLink, lines 135-182.                                     *)
(***************************************************************************)
\* The loop of lines 150-165.
RECURSIVE CollectFirstItems(_, _)
CollectFirstItems(files, dirPath) ==
    IF files = <<>>
    THEN <<>>
    ELSE LET file == Head(files)
             rest == CollectFirstItems(Tail(files), dirPath)
             parsed == parseFileName(file, dirPath)
         IN  IF file = "index.md" THEN rest
             ELSE IF ~EndsWith(file, ".md") THEN rest
             ELSE IF parsed.matched
                  THEN <<[order |-> parsed.order,
                          filename |-> file,
                          hash |-> parsed.hash]>> \o rest
                  ELSE rest

\* A first link without the items.length === 0 branch of lines 168-170: the
\* template literal is built from an undefined first item.
FirstLinkOfNoFallback(items, dirPath) ==
    IF Len(items) = 0
    THEN RoutePrefix(dirPath) \o "/" \o "undefined"
    ELSE RoutePrefix(dirPath) \o "/" \o SortItems(items)[1].hash

\* A first link taken from the items in the order of the listing.
FirstLinkOfUnsorted(items, dirPath) ==
    IF Len(items) = 0
    THEN "/"
    ELSE RoutePrefix(dirPath) \o "/" \o items[1].hash

\* Lines 167-181: the link of the first item after the sort, or "/".
FirstLinkOf(items, dirPath) ==
    IF Len(items) = 0
    THEN "/"
    ELSE LET sorted == SortItems(items)
             firstArticle == sorted[1]
             routePrefix == RoutePrefix(dirPath)
             linkPath == firstArticle.hash
         IN  routePrefix \o "/" \o linkPath

FirstLinkCall(dirPath) ==
    LET fullPath == ResolvePath(cwd, dirPath)
    IN  IF ~existsSync(fullPath)
        THEN [status |-> "returned",
              link |-> "/",
              console |-> <<[level |-> "warn", fullPath |-> fullPath]>>]
        ELSE IF fs[fullPath].kind # "dir"
        THEN [status |-> "threw", link |-> "", console |-> <<>>]
        ELSE [status |-> "returned",
              link |-> FirstLinkOf(CollectFirstItems(fs[fullPath].files, dirPath),
                                   dirPath),
              console |-> <<>>]

(***************************************************************************)
(* generateRewrites, lines 199-219.                                        *)
(***************************************************************************)
\* A rule path without the collection's directory name.
DirNameDropped(routePrefix) == ""

\* routePrefix.replace(/^\/|\/$/g, ''), line 206.
DirName(routePrefix) ==
    LET a == IF StartsWith(routePrefix, "/")
             THEN SubSeq(routePrefix, 2, Len(routePrefix))
             ELSE routePrefix
    IN  IF EndsWith(a, "/") THEN SubSeq(a, 1, Len(a) - 1) ELSE a

EmptyTable == [k \in {} |-> ""]

\* rewrites[key] = value, line 213.
Assign(table, key, value) ==
    [k \in DOMAIN table \cup {key} |-> IF k = key THEN value ELSE table[k]]

\* The inner loop of lines 204-214 over the mappings of one route prefix.
RECURSIVE RewriteMappings(_, _, _)
RewriteMappings(table, routePrefix, mappings) ==
    IF mappings = <<>>
    THEN table
    ELSE LET mapping == Head(mappings)
             dirName == DirName(routePrefix)
             originalPath == dirName \o "/" \o mapping.originalPath \o ".md"
             hashPath == dirName \o "/" \o mapping.hash \o ".md"
         IN  RewriteMappings(Assign(table, originalPath, hashPath),
                             routePrefix, Tail(mappings))

\* Rules for the first collection of the registry only.
RewriteEntriesFirstOnly(table, rm) ==
    IF rm = <<>>
    THEN table
    ELSE RewriteMappings(table, Head(rm).key, Head(rm).mappings)

\* The outer loop of line 203 over Object.entries(routeMappings).
RECURSIVE RewriteEntries(_, _)
RewriteEntries(table, rm) ==
    IF rm = <<>>
    THEN table
    ELSE RewriteEntries(RewriteMappings(table, Head(rm).key, Head(rm).mappings),
                        Tail(rm))

RewritesOf(rm) == RewriteEntries(EmptyTable, rm)

(***************************************************************************)
(* saveRouteMappings, lines 224-238: the value it serialises.              *)
(***************************************************************************)
\* The serialisation added to what the file already holds.
MappingsFormattedAppended(rm) ==
    dumpFile.content \o
        [i \in 1..Len(rm) |->
            [key |-> rm[i].key,
             entries |-> [j \in 1..Len(rm[i].mappings) |->
                            [hash |-> rm[i].mappings[j].hash,
                             file |-> rm[i].mappings[j].originalPath,
                             text |-> rm[i].mappings[j].text]]]]

MappingsFormatted(rm) ==
    [i \in 1..Len(rm) |->
        [key |-> rm[i].key,
         entries |-> [j \in 1..Len(rm[i].mappings) |->
                        [hash |-> rm[i].mappings[j].hash,
                         file |-> rm[i].mappings[j].originalPath,
                         text |-> rm[i].mappings[j].text]]]]

(***************************************************************************)
(* The collections of generateAllSidebars (lines 190-191) and the          *)
(* directory entries the model draws listings from.                        *)
(***************************************************************************)
InterviewDir == "docs/interview"
Vue3Dir == "docs/vue3-best-practices"
Dirs == {InterviewDir, Vue3Dir}

InterviewKey == "/interview/"
Vue3Key == "/vue3-best-practices/"

\* ASCII stand-ins for the two group titles of lines 190-191.
InterviewTitle == "Interview"
Vue3Title == "Vue 3 best practices"
GroupTexts == {InterviewTitle, Vue3Title}

\* The working directory of a build.
BuildCwd == "/home/a/site"

\* The project checked out elsewhere, on another machine.
OtherCwd == "/srv/b/question-bank"
Cwds == {BuildCwd, OtherCwd}

\* Entries of a build's docs/interview: numbered files (two of order 1, one
\* of order 10, two whose paths share their first 8 MD5 digits) and entries
\* that are not numbered markdown files.
BuildNames ==
    {"1.Alpha.md", "01.Alpha.md", "10.Gamma.md", "2.VVO.md", "9.OMR.md",
     "index.md", "3.C.txt", "4..md", "a1.X.md", "5.a\nb.md"}

\* Entries of the directories of the edited tree.
TreeNames(dirPath) ==
    IF dirPath = InterviewDir
    THEN {"1.Alpha.md", "index.md"}
    ELSE {"1.Alpha.md"}

\* The listings of at most max distinct entries out of names, in every order.
Listings(names, max) ==
    UNION {{l \in [1..n -> names] : \A i, j \in 1..n : i # j => l[i] # l[j]}
           : n \in 0..max}

\* The tree with docs/interview and docs/vue3-best-practices as given.
Tree(base, interview, vue3) ==
    [p \in {ResolvePath(base, d) : d \in Dirs} |->
        IF p = ResolvePath(base, InterviewDir) THEN interview ELSE vue3]

(***************************************************************************)
(* The outcome of a call, as its caller and the console see it; items is   *)
(* the sorted items array of each directory the call scanned.              *)
(***************************************************************************)
NoRet ==
    [op |-> "none", dirPath |-> "", groupText |-> "", status |-> "none",
     items |-> <<>>, sidebar |-> <<>>, link |-> "",
     sidebars |-> <<>>, rewrites |-> EmptyTable, console |-> <<>>]

NoDump == [exists |-> FALSE, path |-> "", content |-> <<>>]

NoConfig == [sidebar |-> <<>>, rewrites |-> EmptyTable, nav |-> <<>>]

WithinBound(rm) == \A i \in 1..Len(rm) : Len(rm[i].mappings) <= MaxMappings

(***************************************************************************)
(* The exported functions.                                                 *)
(***************************************************************************)
generateSidebar(dirPath, groupText) ==
    LET o == SidebarCall(routeMappings, dirPath, groupText)
    IN  /\ WithinBound(o.rm)
        /\ routeMappings' = o.rm
        /\ ret' = [NoRet EXCEPT !.op = "generateSidebar",
                                !.dirPath = dirPath,
                                !.groupText = groupText,
                                !.status = o.status,
                                !.items = [d \in {dirPath} |-> o.items],
                                !.sidebar = o.sidebar,
                                !.console = o.console]
        /\ UNCHANGED <<cwd, fs, dumpFile>>

\* A getFirstArticleLink that initialises the collection's key as
\* generateSidebar does at lines 100-102.
getFirstArticleLinkRegistering(dirPath) ==
    LET o == FirstLinkCall(dirPath)
    IN  /\ ret' = [NoRet EXCEPT !.op = "getFirstArticleLink",
                                !.dirPath = dirPath,
                                !.status = o.status,
                                !.link = o.link,
                                !.console = o.console]
        /\ routeMappings' = IF existsSync(ResolvePath(cwd, dirPath))
                            THEN EnsureKey(routeMappings, RoutePrefix(dirPath))
                            ELSE routeMappings
        /\ UNCHANGED <<cwd, fs, dumpFile>>

getFirstArticleLink(dirPath) ==
    LET o == FirstLinkCall(dirPath)
    IN  /\ ret' = [NoRet EXCEPT !.op = "getFirstArticleLink",
                                !.dirPath = dirPath,
                                !.status = o.status,
                                !.link = o.link,
                                !.console = o.console]
        /\ UNCHANGED <<cwd, fs, routeMappings, dumpFile>>

\* Lines 188-193: the two scans in turn; the second is not reached when the
\* first throws, and what the first pushed stays when the second throws.
generateAllSidebars ==
    LET first == SidebarCall(routeMappings, InterviewDir, InterviewTitle)
        second == SidebarCall(first.rm, Vue3Dir, Vue3Title)
        threw == first.status = "threw" \/ second.status = "threw"
        after == IF first.status = "threw" THEN first.rm ELSE second.rm
    IN  /\ WithinBound(after)
        /\ routeMappings' = after
        /\ ret' = [NoRet EXCEPT
                     !.op = "generateAllSidebars",
                     !.status = IF threw THEN "threw" ELSE "returned",
                     !.items = IF first.status = "threw"
                               THEN [d \in {InterviewDir} |-> first.items]
                               ELSE [d \in Dirs |-> IF d = InterviewDir
                                                    THEN first.items
                                                    ELSE second.items],
                     !.sidebars = IF threw
                                  THEN <<>>
                                  ELSE [k \in {InterviewKey, Vue3Key} |->
                                          IF k = InterviewKey
                                          THEN first.sidebar
                                          ELSE second.sidebar],
                     !.console = IF first.status = "threw"
                                 THEN first.console
                                 ELSE first.console \o second.console]
        /\ UNCHANGED <<cwd, fs, dumpFile>>

\* A generateRewrites that consumes the mappings it turns into rules.
generateRewritesDraining ==
    /\ ret' = [NoRet EXCEPT !.op = "generateRewrites",
                            !.status = "returned",
                            !.rewrites = RewritesOf(routeMappings),
                            !.console = <<[level |-> "log", fullPath |-> ""]>>]
    /\ routeMappings' = <<>>
    /\ UNCHANGED <<cwd, fs, dumpFile>>

generateRewrites ==
    /\ ret' = [NoRet EXCEPT !.op = "generateRewrites",
                            !.status = "returned",
                            !.rewrites = RewritesOf(routeMappings),
                            !.console = <<[level |-> "log", fullPath |-> ""]>>]
    /\ UNCHANGED <<cwd, fs, routeMappings, dumpFile>>

saveRouteMappings ==
    LET outputPath == ResolvePath(cwd, "route-mappings.json")
    IN  /\ dumpFile' = [exists |-> TRUE,
                        path |-> outputPath,
                        content |-> MappingsFormatted(routeMappings)]
        /\ ret' = [NoRet EXCEPT !.op = "saveRouteMappings",
                                !.status = "returned",
                                !.console = <<[level |-> "log", fullPath |-> outputPath]>>]
        /\ UNCHANGED <<cwd, fs, routeMappings>>

(***************************************************************************)
(* Edits of the file tree between calls.                                   *)
(***************************************************************************)
\* A new entry; readdirSync may enumerate it at any position.
CreateFile(dirPath, name, at) ==
    LET fullPath == ResolvePath(cwd, dirPath)
        files == fs[fullPath].files
    IN  /\ fs[fullPath].kind = "dir"
        /\ Len(files) < MaxTreeFiles
        /\ \A i \in 1..Len(files) : files[i] # name
        /\ at \in 0..Len(files)
        /\ fs' = [fs EXCEPT ![fullPath].files =
                     SubSeq(files, 1, at) \o <<name>> \o SubSeq(files, at + 1, Len(files))]
        /\ UNCHANGED <<cwd, routeMappings, ret, dumpFile, pc, config>>

DeleteFile(dirPath, at) ==
    LET fullPath == ResolvePath(cwd, dirPath)
        files == fs[fullPath].files
    IN  /\ fs[fullPath].kind = "dir"
        /\ at \in 1..Len(files)
        /\ fs' = [fs EXCEPT ![fullPath].files =
                     SubSeq(files, 1, at - 1) \o SubSeq(files, at + 1, Len(files))]
        /\ UNCHANGED <<cwd, routeMappings, ret, dumpFile, pc, config>>

\* The collection directory is removed with what it holds.
RemoveDir(dirPath) ==
    LET fullPath == ResolvePath(cwd, dirPath)
    IN  /\ fs[fullPath].kind # "absent"
        /\ fs' = [fs EXCEPT ![fullPath] = AbsentNode]
        /\ UNCHANGED <<cwd, routeMappings, ret, dumpFile, pc, config>>

\* The collection directory is created, empty.
MakeDir(dirPath) ==
    LET fullPath == ResolvePath(cwd, dirPath)
    IN  /\ fs[fullPath].kind = "absent"
        /\ fs' = [fs EXCEPT ![fullPath] = DirNode(<<>>)]
        /\ UNCHANGED <<cwd, routeMappings, ret, dumpFile, pc, config>>

(***************************************************************************)
(* Spec: a process that calls the scanning functions and generateRewrites  *)
(* in any order while the tree is edited between the calls.                *)
(***************************************************************************)
CallGenerateSidebar(dirPath, groupText) ==
    generateSidebar(dirPath, groupText) /\ UNCHANGED <<pc, config>>

CallGetFirstArticleLink(dirPath) ==
    getFirstArticleLink(dirPath) /\ UNCHANGED <<pc, config>>

CallGenerateAllSidebars ==
    generateAllSidebars /\ UNCHANGED <<pc, config>>

CallGenerateRewrites ==
    generateRewrites /\ UNCHANGED <<pc, config>>

TreeNodes(dirPath) ==
    {AbsentNode}
        \cup {DirNode(l) : l \in Listings(TreeNames(dirPath), MaxTreeFiles)}

Init ==
    /\ cwd \in Cwds
    /\ \E interview \in TreeNodes(InterviewDir), vue3 \in TreeNodes(Vue3Dir) :
          fs = Tree(cwd, interview, vue3)
    /\ routeMappings = <<>>
    /\ ret = NoRet
    /\ dumpFile = NoDump
    /\ pc = "caller"
    /\ config = NoConfig

Next ==
    \/ \E dirPath \in Dirs, groupText \in GroupTexts :
          CallGenerateSidebar(dirPath, groupText)
    \/ \E dirPath \in Dirs : CallGetFirstArticleLink(dirPath)
    \/ CallGenerateAllSidebars
    \/ CallGenerateRewrites
    \/ \E dirPath \in Dirs : \E name \in TreeNames(dirPath), at \in 0..MaxTreeFiles :
          CreateFile(dirPath, name, at)
    \/ \E dirPath \in Dirs, at \in 1..MaxTreeFiles : DeleteFile(dirPath, at)
    \/ \E dirPath \in Dirs : RemoveDir(dirPath)
    \/ \E dirPath \in Dirs : MakeDir(dirPath)

Spec == Init /\ [][Next]_vars

\* What an earlier build left in route-mappings.json.
StaleDump ==
    [exists |-> TRUE,
     path |-> ResolvePath(BuildCwd, "route-mappings.json"),
     content |-> <<[key |-> "/interview",
                    entries |-> <<[hash |-> "00000000", file |-> "0.Old", text |-> "Old"]>>]>>]

(***************************************************************************)
(* SpecSave: a development session over a tree that stays as it is, in     *)
(* which the scans, generateRewrites and saveRouteMappings (NODE_ENV is    *)
(* not production) are called any number of times in any order, as when    *)
(* the config module is evaluated again in the same process.  An earlier   *)
(* session may have left a route-mappings.json behind.                     *)
(***************************************************************************)
CallSaveRouteMappings ==
    saveRouteMappings /\ UNCHANGED <<pc, config>>

\* docs/interview/7.LPB.md and docs/vue3-best-practices/1.YIA.md share the
\* first 8 digits of their digests.
SaveNodes(dirPath) ==
    IF dirPath = InterviewDir
    THEN {DirNode(<<"index.md", "1.Alpha.md">>), DirNode(<<"7.LPB.md">>)}
    ELSE {AbsentNode, DirNode(<<"1.Alpha.md">>), DirNode(<<"1.YIA.md">>)}

InitSave ==
    /\ cwd = BuildCwd
    /\ \E interview \in SaveNodes(InterviewDir), vue3 \in SaveNodes(Vue3Dir) :
          fs = Tree(BuildCwd, interview, vue3)
    /\ routeMappings = <<>>
    /\ ret = NoRet
    /\ dumpFile \in {NoDump, StaleDump}
    /\ pc = "caller"
    /\ config = NoConfig

NextSave ==
    \/ \E dirPath \in Dirs :
          CallGenerateSidebar(dirPath, IF dirPath = InterviewDir
                                       THEN InterviewTitle ELSE Vue3Title)
    \/ \E dirPath \in Dirs : CallGetFirstArticleLink(dirPath)
    \/ CallGenerateRewrites
    \/ CallSaveRouteMappings

SpecSave == InitSave /\ [][NextSave]_vars

(***************************************************************************)
(* SpecBuild: one evaluation of the config module (the one that installs   *)
(* the rewrites) over a tree that stays as it is: generateAllSidebars,     *)
(* generateRewrites, saveRouteMappings unless NODE_ENV is production, and  *)
(* the two getFirstArticleLink calls of themeConfig.nav.  An exception     *)
(* ends the evaluation.                                                    *)
(***************************************************************************)
After(next) == IF ret'.status = "threw" THEN "failed" ELSE next

ConfigSidebar ==
    /\ pc = "sidebar"
    /\ generateAllSidebars
    /\ pc' = After("rewrites")
    /\ config' = [config EXCEPT !.sidebar = ret'.sidebars]

ConfigRewrites ==
    /\ pc = "rewrites"
    /\ generateRewrites
    /\ pc' = After("save")
    /\ config' = [config EXCEPT !.rewrites = ret'.rewrites]

\* process.env.NODE_ENV !== 'production'
ConfigSave ==
    /\ pc = "save"
    /\ saveRouteMappings
    /\ pc' = After("nav")
    /\ UNCHANGED config

\* process.env.NODE_ENV === 'production'
ConfigSkipSave ==
    /\ pc = "save"
    /\ pc' = "nav"
    /\ UNCHANGED <<cwd, fs, routeMappings, ret, dumpFile, config>>

ConfigNav ==
    /\ pc = "nav"
    /\ getFirstArticleLink(IF Len(config.nav) = 0 THEN InterviewDir ELSE Vue3Dir)
    /\ pc' = After(IF Len(config.nav) = 0 THEN "nav" ELSE "done")
    /\ config' = [config EXCEPT !.nav = Append(@, ret'.link)]

BuildNodes(dirPath) ==
    IF dirPath = InterviewDir
    THEN {AbsentNode, FileNode}
            \cup {DirNode(l) : l \in Listings(BuildNames, MaxFiles)}
    ELSE {AbsentNode, DirNode(<<"index.md", "2. B.c .md", "1.Alpha.md">>)}

InitBuild ==
    /\ cwd = BuildCwd
    /\ \E interview \in BuildNodes(InterviewDir), vue3 \in BuildNodes(Vue3Dir) :
          fs = Tree(BuildCwd, interview, vue3)
    /\ routeMappings = <<>>
    /\ ret = NoRet
    /\ dumpFile \in {NoDump, StaleDump}
    /\ pc = "sidebar"
    /\ config = NoConfig

NextBuild ==
    \/ ConfigSidebar
    \/ ConfigRewrites
    \/ ConfigSave
    \/ ConfigSkipSave
    \/ ConfigNav

SpecBuild == InitBuild /\ [][NextBuild]_vars

(***************************************************************************)
(* Vocabulary of the properties.                                           *)
(***************************************************************************)
NodeOf(dirPath) == fs[ResolvePath(cwd, dirPath)]

Range(seq) == {seq[i] : i \in 1..Len(seq)}

\* Every order in which a directory may enumerate the entries of files.
Perms(files) ==
    {l \in [1..Len(files) -> Range(files)] : \A i, j \in 1..Len(files) : i # j => l[i] # l[j]}

PositionIn(files, name) == CHOOSE i \in 1..Len(files) : files[i] = name

\* name is <one or more decimal digits>.<non-empty label>.md
HasNumberedForm(name) ==
    \E k \in 1..Len(name) :
        /\ \A i \in 1..k : CharAt(name, i) \in Digit
        /\ CharAt(name, k + 1) = "."
        /\ Len(name) >= k + 5
        /\ EndsWith(name, ".md")

Eligible(name) == HasNumberedForm(name) /\ name # "index.md"

NumericPrefix(name) == SubSeq(name, 1, DigitRun(name, 1))

\* What lies between the dot after the numeric prefix and the final ".md".
LabelOf(name) == SubSeq(name, DigitRun(name, 1) + 2, Len(name) - 3)

\* The config module has got the value of generateAllSidebars() for a tree
\* in which docs/interview is a directory.
InterviewScanned ==
    /\ ret.op = "generateAllSidebars"
    /\ ret.status = "returned"
    /\ NodeOf(InterviewDir).kind = "dir"

InterviewFiles == NodeOf(InterviewDir).files

\* The items array and the returned items of that scan.
InterviewItems == ret.items[InterviewDir]
InterviewSidebarItems == ret.sidebars[InterviewKey][1].items

(***************************************************************************)
(* C1.  If two distinct eligible files of one collection get the same     *)
(* identifier, building the rewrite table (generateSidebar, then          *)
(* generateRewrites) fails with a collision error: the evaluation of the  *)
(* config module does not get past generateRewrites, and no table is      *)
(* returned in which two source paths are mapped to one public path.      *)
(* The code has no collision check, so this does not hold.                *)
(***************************************************************************)
Colliding(dirPath) ==
    /\ NodeOf(dirPath).kind = "dir"
    /\ \E f, g \in Range(NodeOf(dirPath).files) :
          /\ f # g
          /\ Eligible(f)
          /\ Eligible(g)
          /\ generateHash(dirPath \o "/" \o f) = generateHash(dirPath \o "/" \o g)

C1_CollisionIsReported ==
    Colliding(InterviewDir) =>
        /\ pc \notin {"save", "nav", "done"}
        /\ \A k1, k2 \in DOMAIN config.rewrites :
              k1 # k2 => config.rewrites[k1] # config.rewrites[k2]

(***************************************************************************)
(* C2.  The identifier of a file depends neither on its numeric prefix    *)
(* nor on its label: two items of a scan whose file names differ only in  *)
(* the prefix, or only in the label, have the same identifier.  The code  *)
(* hashes the whole file name, so this does not hold.                     *)
(***************************************************************************)
C2_IdentifierIgnoresOrderAndLabel ==
    InterviewScanned =>
        \A i, j \in 1..Len(InterviewItems) :
            LET f == InterviewItems[i].filename
                g == InterviewItems[j].filename
            IN  (LabelOf(f) = LabelOf(g) \/ NumericPrefix(f) = NumericPrefix(g))
                    => InterviewItems[i].hash = InterviewItems[j].hash

(***************************************************************************)
(* C3.  The identifier is a function of the collection directory and the  *)
(* file name alone: whatever was called before, whatever routeMappings    *)
(* holds and whatever else the directory held, every identifier recorded  *)
(* for a file of a collection, and every link built from one, is          *)
(* generateHash of that directory and file name.                          *)
(***************************************************************************)
IdentifierOf(dirPath, originalPath) ==
    generateHash(dirPath \o "/" \o originalPath \o ".md")

C3_IdentifierIsPureFunction ==
    /\ \A i \in 1..Len(routeMappings) :
          \E dirPath \in Dirs :
              /\ RoutePrefix(dirPath) = routeMappings[i].key
              /\ \A j \in 1..Len(routeMappings[i].mappings) :
                    LET m == routeMappings[i].mappings[j]
                    IN  m.hash = IdentifierOf(dirPath, m.originalPath)
    /\ \A dirPath \in DOMAIN ret.items :
          \A i \in 1..Len(ret.items[dirPath]) :
              LET item == ret.items[dirPath][i]
              IN  item.hash = IdentifierOf(dirPath, StripMd(item.filename))
    /\ (ret.op = "generateSidebar" /\ ret.sidebar # <<>>) =>
          \A i \in 1..Len(ret.sidebar[1].items) :
              ret.sidebar[1].items[i].link =
                  RoutePrefix(ret.dirPath) \o "/"
                      \o IdentifierOf(ret.dirPath, StripMd(ret.items[ret.dirPath][i].filename))
    /\ (ret.op = "getFirstArticleLink" /\ ret.status = "returned" /\ ret.link # "/") =>
          \E name \in TreeNames(ret.dirPath) :
              ret.link = RoutePrefix(ret.dirPath) \o "/"
                            \o IdentifierOf(ret.dirPath, StripMd(name))

\* The same file has been scanned twice in docs/interview, the same name has
\* been scanned in the other collection, and a scan has just returned.
C3_Witness ==
    /\ Len(MappingsOf(routeMappings, "/interview")) >= 2
    /\ MappingsOf(routeMappings, "/interview")[1] = MappingsOf(routeMappings, "/interview")[2]
    /\ Len(MappingsOf(routeMappings, "/vue3-best-practices")) >= 1
    /\ MappingsOf(routeMappings, "/vue3-best-practices")[1].originalPath = "1.Alpha"
    /\ ret.op = "generateSidebar"
    /\ ret.sidebar # <<>>
    /\ Len(ret.sidebar[1].items) = 1

(***************************************************************************)
(* C4.  When the eligible files of the listing have pairwise distinct     *)
(* numeric prefixes (as integers), the items of generateSidebar are in    *)
(* ascending order of the prefix read as an integer, and the returned     *)
(* items are the same for every permutation of the listing.               *)
(***************************************************************************)
DistinctOrders(files) ==
    \A f, g \in {n \in Range(files) : Eligible(n)} :
        f # g => parseInt(NumericPrefix(f)) # parseInt(NumericPrefix(g))

C5_EqualOrdersKeepListingOrder ==
    InterviewScanned =>
        \A i, j \in 1..Len(InterviewItems) :
            (i < j /\ InterviewItems[i].order = InterviewItems[j].order)
                => PositionIn(InterviewFiles, InterviewItems[i].filename)
                      < PositionIn(InterviewFiles, InterviewItems[j].filename)

\* 01.Alpha.md is enumerated before 1.Alpha.md, after a file of higher order.
C5_Witness ==
    /\ InterviewScanned
    /\ InterviewFiles = <<"2.VVO.md", "01.Alpha.md", "1.Alpha.md">>
    /\ InterviewItems[1].filename = "01.Alpha.md"
    /\ InterviewItems[2].filename = "1.Alpha.md"
    /\ InterviewItems[1].order = InterviewItems[2].order

(***************************************************************************)
(* C6.  Nothing is derived from index.md: no item of a scan, no mapping,  *)
(* no rewrite rule, no sidebar link and no first-article link.            *)
(***************************************************************************)
IndexLink(dirPath) ==
    RoutePrefix(dirPath) \o "/" \o generateHash(dirPath \o "/" \o "index.md")

IndexRule(dirPath) == DirName(RoutePrefix(dirPath)) \o "/" \o "index.md"

C6_IndexNeverListed ==
    /\ \A dirPath \in DOMAIN ret.items :
          \A i \in 1..Len(ret.items[dirPath]) :
              ret.items[dirPath][i].filename # "index.md"
    /\ \A i \in 1..Len(routeMappings) :
          \A j \in 1..Len(routeMappings[i].mappings) :
              routeMappings[i].mappings[j].originalPath # "index"
    /\ \A dirPath \in Dirs :
          /\ IndexRule(dirPath) \notin DOMAIN ret.rewrites
          /\ IndexRule(dirPath) \notin DOMAIN config.rewrites
          /\ ret.link # IndexLink(dirPath)
          /\ \A i \in 1..Len(config.nav) : config.nav[i] # IndexLink(dirPath)
    /\ \A key \in DOMAIN config.sidebar :
          \A g \in 1..Len(config.sidebar[key]) :
              \A i \in 1..Len(config.sidebar[key][g].items) :
                  \A dirPath \in Dirs :
                      config.sidebar[key][g].items[i].link # IndexLink(dirPath)

\* A build has finished over a docs/interview that holds index.md before a
\* numbered file.
C6_Witness ==
    /\ pc = "done"
    /\ NodeOf(InterviewDir).kind = "dir"
    /\ Len(InterviewFiles) = 2
    /\ InterviewFiles[1] = "index.md"
    /\ Len(config.sidebar[InterviewKey][1].items) = 1
    /\ config.nav[1] # "/"

(***************************************************************************)
(* C7.  An entry of the directory yields an item of the scan if and only  *)
(* if its name is <one or more decimal digits>.<non-empty label>.md and   *)
(* is not index.md; every other entry is skipped without an error.        *)
(* The "." of the pattern of line 41 matches no line terminator, so a     *)
(* numbered file whose label holds one is skipped: this does not hold.    *)
(***************************************************************************)
Listed(name) == \E j \in 1..Len(InterviewItems) : InterviewItems[j].filename = name

C7_EntryIffNumberedForm ==
    /\ (ret.op = "generateAllSidebars"
            /\ \A dirPath \in Dirs : NodeOf(dirPath).kind # "file")
          => ret.status = "returned"
    /\ InterviewScanned =>
          \A i \in 1..Len(InterviewFiles) :
              Listed(InterviewFiles[i]) <=> Eligible(InterviewFiles[i])

(***************************************************************************)
(* C8.  generateSidebar returns one group with exactly one item per       *)
(* eligible file; the i-th item has the label of the i-th sorted entry as *)
(* text and routePrefix/identifier of that entry as link, and the link is *)
(* not the one built from the raw file name.  The items are built as      *)
(* stated, but their number is not the number of eligible files when a    *)
(* numbered file is skipped by the scan (C7): this does not hold.         *)
(***************************************************************************)
EligibleCount(files) == Cardinality({i \in 1..Len(files) : Eligible(files[i])})

C8_OneItemPerEligibleFile ==
    InterviewScanned =>
        /\ Len(ret.sidebars[InterviewKey]) = 1
        /\ ret.sidebars[InterviewKey][1].text = InterviewTitle
        /\ Len(InterviewSidebarItems) = EligibleCount(InterviewFiles)
        /\ Len(InterviewSidebarItems) = Len(InterviewItems)
        /\ \A i \in 1..Len(InterviewItems) :
              LET entry == InterviewItems[i]
                  item == InterviewSidebarItems[i]
              IN  /\ item.text = LabelOf(entry.filename)
                  /\ item.link = RoutePrefix(InterviewDir) \o "/"
                                    \o generateHash(InterviewDir \o "/" \o entry.filename)
                  /\ item.link # RoutePrefix(InterviewDir) \o "/" \o StripMd(entry.filename)

(***************************************************************************)
(* C9.  The link getFirstArticleLink returns for a directory is the link  *)
(* of the first item generateSidebar returns for the same listing, also   *)
(* when several files share the smallest order, and it is "/" when the    *)
(* directory has no eligible file.                                        *)
(***************************************************************************)
FirstItemLink(sidebar) ==
    IF sidebar = <<>> \/ sidebar[1].items = <<>>
    THEN "/"
    ELSE sidebar[1].items[1].link

NavLinkAgrees(n, dirPath, key) ==
    Len(config.nav) >= n =>
        /\ config.nav[n] = FirstItemLink(config.sidebar[key])
        /\ (NodeOf(dirPath).kind = "dir"
                /\ \A f \in Range(NodeOf(dirPath).files) : ~Eligible(f))
              => config.nav[n] = "/"

C9_FirstLinkIsFirstSidebarItem ==
    /\ NavLinkAgrees(1, InterviewDir, InterviewKey)
    /\ NavLinkAgrees(2, Vue3Dir, Vue3Key)

\* Two files share the smallest order and the listing enumerates a file of
\* higher order first.
C9_Witness ==
    /\ pc = "done"
    /\ NodeOf(InterviewDir).kind = "dir"
    /\ InterviewFiles = <<"2.VVO.md", "01.Alpha.md", "1.Alpha.md">>
    /\ config.nav[1] = "/interview/" \o generateHash("docs/interview/01.Alpha.md")
    /\ config.nav[1] = config.sidebar[InterviewKey][1].items[1].link
    /\ config.nav[2] # "/"

(***************************************************************************)
(* C10.  For a collection directory that does not exist, generateSidebar  *)
(* returns [] and getFirstArticleLink returns "/", each after a warning   *)
(* that names the path and neither by throwing; generateAllSidebars still *)
(* returns the group of the other collection, and the evaluation of the   *)
(* config module does not fail.                                           *)
(***************************************************************************)
KeyOf(dirPath) == IF dirPath = InterviewDir THEN InterviewKey ELSE Vue3Key

TitleOf(dirPath) == IF dirPath = InterviewDir THEN InterviewTitle ELSE Vue3Title

Warned(dirPath) ==
    \E i \in 1..Len(ret.console) :
        ret.console[i] = [level |-> "warn", fullPath |-> ResolvePath(cwd, dirPath)]

NoRegularFile == \A dirPath \in Dirs : NodeOf(dirPath).kind # "file"

C10_MissingDirectoryIsEmpty ==
    /\ (ret.op = "generateAllSidebars" /\ NoRegularFile) =>
          /\ ret.status = "returned"
          /\ \A dirPath \in Dirs :
                IF NodeOf(dirPath).kind = "absent"
                THEN /\ ret.sidebars[KeyOf(dirPath)] = <<>>
                     /\ Warned(dirPath)
                ELSE /\ Len(ret.sidebars[KeyOf(dirPath)]) = 1
                     /\ ret.sidebars[KeyOf(dirPath)][1].text = TitleOf(dirPath)
                     /\ Len(ret.sidebars[KeyOf(dirPath)][1].items)
                           = Len(ret.items[dirPath])
    /\ (ret.op = "getFirstArticleLink" /\ NodeOf(ret.dirPath).kind = "absent") =>
          /\ ret.status = "returned"
          /\ ret.link = "/"
          /\ Warned(ret.dirPath)
    /\ NoRegularFile => pc # "failed"

\* docs/interview is missing, docs/vue3-best-practices is not, and the build
\* has finished with the navigation of the latter.
C10_Witness ==
    /\ pc = "done"
    /\ NodeOf(InterviewDir).kind = "absent"
    /\ NodeOf(Vue3Dir).kind = "dir"
    /\ config.sidebar[InterviewKey] = <<>>
    /\ Len(config.sidebar[Vue3Key]) = 1
    /\ Len(config.sidebar[Vue3Key][1].items) = 2
    /\ config.nav = <<"/", config.sidebar[Vue3Key][1].items[1].link>>

(***************************************************************************)
(* C11.  For a collection directory that exists and holds no eligible     *)
(* file, generateSidebar returns its group with an empty array of items,  *)
(* and getFirstArticleLink returns "/"; neither throws.                   *)
(***************************************************************************)
NoEligibleFile(dirPath) ==
    /\ NodeOf(dirPath).kind = "dir"
    /\ \A f \in Range(NodeOf(dirPath).files) : ~Eligible(f)

C11_NoEligibleFileIsEmpty ==
    \A dirPath \in Dirs :
        NoEligibleFile(dirPath) =>
            /\ (ret.op = "generateAllSidebars" /\ ret.status = "returned") =>
                  ret.sidebars[KeyOf(dirPath)]
                      = <<[text |-> TitleOf(dirPath), items |-> <<>>]>>
            /\ (ret.op = "getFirstArticleLink" /\ ret.dirPath = dirPath) =>
                  /\ ret.status = "returned"
                  /\ ret.link = "/"
            /\ pc = "done" =>
                  config.nav[IF dirPath = InterviewDir THEN 1 ELSE 2] = "/"

\* A finished build whose docs/interview holds index.md and two files that
\* are not numbered markdown files.
C11_Witness ==
    /\ pc = "done"
    /\ NodeOf(InterviewDir).kind = "dir"
    /\ Range(InterviewFiles) = {"index.md", "3.C.txt", "a1.X.md"}
    /\ config.sidebar[InterviewKey] = <<[text |-> InterviewTitle, items |-> <<>>]>>
    /\ config.nav[1] = "/"

(***************************************************************************)
(* C12.  The table generateRewrites returns after one generateAllSidebars *)
(* from a fresh module state has exactly one rule per eligible file of    *)
(* each scanned collection, from <collection>/<file name> to              *)
(* <collection>/<identifier>.md, and no other rule.  The rules are built  *)
(* as stated, but a numbered file that the scan skips (C7) has no rule:   *)
(* this does not hold.                                                    *)
(***************************************************************************)
CollectionOf(dirPath) ==
    IF dirPath = InterviewDir THEN "interview" ELSE "vue3-best-practices"

RuleKey(dirPath, name) == CollectionOf(dirPath) \o "/" \o name

RuleValue(dirPath, name) ==
    CollectionOf(dirPath) \o "/" \o generateHash(dirPath \o "/" \o name) \o ".md"

ScannedDirs == {dirPath \in Dirs : NodeOf(dirPath).kind = "dir"}

C12_OneRulePerEligibleFile ==
    pc \in {"save", "nav", "done"} =>
        /\ \A dirPath \in ScannedDirs :
              \A f \in Range(NodeOf(dirPath).files) :
                  /\ Eligible(f) <=> RuleKey(dirPath, f) \in DOMAIN config.rewrites
                  /\ RuleKey(dirPath, f) \in DOMAIN config.rewrites
                        => config.rewrites[RuleKey(dirPath, f)] = RuleValue(dirPath, f)
        /\ DOMAIN config.rewrites
              = UNION {{RuleKey(dirPath, f) :
                           f \in {n \in Range(NodeOf(dirPath).files) : Eligible(n)}} :
                       dirPath \in ScannedDirs}

(***************************************************************************)
(* C13.  Reverse lookup round trip: for every mapping recorded under a    *)
(* collection in routeMappings, the records of that collection with the   *)
(* mapping's identifier are one record, the one of the file the mapping   *)
(* was made from.  Two files of a collection may get one identifier and   *)
(* both are recorded (C1), so this does not hold.                         *)
(***************************************************************************)
Lookup(mappings, hash) ==
    {mappings[j] : j \in {k \in 1..Len(mappings) : mappings[k].hash = hash}}

C13_ReverseLookupRoundTrip ==
    \A i \in 1..Len(routeMappings) :
        \A j \in 1..Len(routeMappings[i].mappings) :
            LET m == routeMappings[i].mappings[j]
            IN  Lookup(routeMappings[i].mappings, m.hash) = {m}

(***************************************************************************)
(* C14.  After any sequence of generateSidebar calls and edits of the     *)
(* tree, the mappings held for a collection are exactly one per item of   *)
(* the most recent scan of that collection: no duplicate, nothing left    *)
(* from an earlier scan.  generateSidebar pushes onto the module-level    *)
(* routeMappings and never empties it, so this does not hold.             *)
(***************************************************************************)
C14_MappingsAreThoseOfLastScan ==
    (ret.op = "generateSidebar" /\ ret.status = "returned" /\ ret.sidebar # <<>>) =>
        LET items == ret.items[ret.dirPath]
        IN  MappingsOf(routeMappings, RoutePrefix(ret.dirPath))
                = [i \in 1..Len(items) |-> MappingOf(items[i])]

(***************************************************************************)
(* C15.  Two distinct source paths of one collection get two distinct     *)
(* identifiers.  The identifier is the first 8 hexadecimal digits of the  *)
(* MD5 digest of the path, and distinct paths may share them, so this     *)
(* does not hold.                                                         *)
(***************************************************************************)
C15_DistinctPathsDistinctIdentifiers ==
    InterviewScanned =>
        \A i, j \in 1..Len(InterviewItems) :
            InterviewItems[i].filename # InterviewItems[j].filename
                => InterviewItems[i].hash # InterviewItems[j].hash

(***************************************************************************)
(* C16.  A generateSidebar call has no effect beyond its return value: it *)
(* leaves the file tree, the dump file and the module state as they       *)
(* were.  The files are left alone, but the call pushes its mappings onto *)
(* the module-level routeMappings, so this does not hold.                 *)
(***************************************************************************)
GenerateSidebarStep ==
    /\ ret'.op = "generateSidebar"
    /\ <<ret, routeMappings>>' # <<ret, routeMappings>>

C16_ScanHasNoSideEffect ==
    [][GenerateSidebarStep =>
          /\ fs' = fs
          /\ cwd' = cwd
          /\ dumpFile' = dumpFile
          /\ routeMappings' = routeMappings]_vars

(***************************************************************************)
(* C17.  In the result of one generateSidebar call no two entries come    *)
(* from one source path: every eligible file name of the listing has      *)
(* exactly one item, one sidebar item and one mapping pushed by the call, *)
(* and every other name has none.  No name has two, but a numbered file   *)
(* that the scan skips (C7) has none: this does not hold.                 *)
(***************************************************************************)
ItemsFrom(name) ==
    {i \in 1..Len(InterviewItems) : InterviewItems[i].filename = name}

PushedFrom(name) ==
    LET pushed == MappingsOf(routeMappings, RoutePrefix(InterviewDir))
    IN  {i \in 1..Len(pushed) : pushed[i].originalPath = StripMd(name)}

C17_OneEntryPerSourcePath ==
    InterviewScanned =>
        /\ Len(InterviewSidebarItems) = Len(InterviewItems)
        /\ \A f \in Range(InterviewFiles) :
              /\ Cardinality(ItemsFrom(f)) = IF Eligible(f) THEN 1 ELSE 0
              /\ Cardinality(PushedFrom(f)) = IF Eligible(f) THEN 1 ELSE 0

(***************************************************************************)
(* C18.  The label is used verbatim: the text of the sidebar item and of  *)
(* the mapping of a file is what stands between the dot after the digit   *)
(* prefix and the final ".md", spaces and inner dots included, and        *)
(* originalPath is the file name without the final ".md".                 *)
(***************************************************************************)
C18_LabelIsVerbatim ==
    (ret.op = "generateAllSidebars" /\ ret.status = "returned") =>
        \A dirPath \in ScannedDirs :
            LET items == ret.items[dirPath]
                returned == ret.sidebars[KeyOf(dirPath)][1].items
                pushed == MappingsOf(routeMappings, RoutePrefix(dirPath))
            IN  /\ Len(returned) = Len(items)
                /\ Len(pushed) = Len(items)
                /\ \A i \in 1..Len(items) :
                      LET name == items[i].filename
                      IN  /\ returned[i].text = LabelOf(name)
                          /\ pushed[i].text = LabelOf(name)
                          /\ pushed[i].originalPath \o ".md" = name
                          /\ Len(returned[i].text) = Len(name) - DigitRun(name, 1) - 4

\* The scan has returned the item of "2. B.c .md", whose label starts and
\* ends with a space and holds a dot.
C18_Witness ==
    /\ ret.op = "generateAllSidebars"
    /\ ret.status = "returned"
    /\ NodeOf(Vue3Dir).kind = "dir"
    /\ ret.sidebars[Vue3Key][1].items[2].text = " B.c "
    /\ MappingsOf(routeMappings, RoutePrefix(Vue3Dir))[2]
          = [hash |-> "b97f80b0", originalPath |-> "2. B.c ", text |-> " B.c "]
    /\ NodeOf(InterviewDir).kind = "dir"
    /\ Len(ret.items[InterviewDir]) = 3

(***************************************************************************)
(* C19.  Whatever the working directory of the process, the identifiers,  *)
(* the links and the rewrite rules of a file are the same: those of       *)
(* 1.Alpha.md are 4d6ac02c under docs/interview and 5ea2ec2d under        *)
(* docs/vue3-best-practices.  The working directory only decides which    *)
(* directory is read, and shows in the warning about a missing one.       *)
(***************************************************************************)
AlphaIdentifier(dirPath) ==
    IF dirPath = InterviewDir THEN "4d6ac02c" ELSE "5ea2ec2d"

AlphaLink(dirPath) ==
    IF dirPath = InterviewDir
    THEN "/interview/4d6ac02c"
    ELSE "/vue3-best-practices/5ea2ec2d"

AlphaRules ==
    [k \in {"interview/1.Alpha.md", "vue3-best-practices/1.Alpha.md"} |->
        IF k = "interview/1.Alpha.md"
        THEN "interview/4d6ac02c.md"
        ELSE "vue3-best-practices/5ea2ec2d.md"]

C19_SameAcrossWorkingDirectories ==
    /\ \A i \in 1..Len(routeMappings) :
          \E dirPath \in Dirs :
              /\ routeMappings[i].key = "/" \o CollectionOf(dirPath)
              /\ \A j \in 1..Len(routeMappings[i].mappings) :
                    routeMappings[i].mappings[j]
                        = [hash |-> AlphaIdentifier(dirPath),
                           originalPath |-> "1.Alpha",
                           text |-> "Alpha"]
    /\ (ret.op = "generateSidebar" /\ ret.sidebar # <<>>) =>
          \A i \in 1..Len(ret.sidebar[1].items) :
              ret.sidebar[1].items[i].link = AlphaLink(ret.dirPath)
    /\ (ret.op = "generateAllSidebars" /\ ret.status = "returned") =>
          \A dirPath \in Dirs :
              \A g \in 1..Len(ret.sidebars[KeyOf(dirPath)]) :
                  \A i \in 1..Len(ret.sidebars[KeyOf(dirPath)][g].items) :
                      ret.sidebars[KeyOf(dirPath)][g].items[i].link = AlphaLink(dirPath)
    /\ ret.op = "getFirstArticleLink" => ret.link \in {"/", AlphaLink(ret.dirPath)}
    /\ ret.op = "generateRewrites" =>
          \A k \in DOMAIN ret.rewrites :
              k \in DOMAIN AlphaRules /\ ret.rewrites[k] = AlphaRules[k]
    /\ \A i \in 1..Len(ret.console) :
          ret.console[i].level = "warn" =>
              \E dirPath \in Dirs : ret.console[i].fullPath = cwd \o "/" \o dirPath

\* In the other working directory both collections have been scanned and
\* generateRewrites has returned both rules.
C19_Witness ==
    /\ cwd = OtherCwd
    /\ ret.op = "generateRewrites"
    /\ ret.rewrites = AlphaRules
    /\ DOMAIN fs = {"/srv/b/question-bank/docs/interview",
                    "/srv/b/question-bank/docs/vue3-best-practices"}

(***************************************************************************)
(* C20.  No state of a collection path makes generateSidebar or           *)
(* getFirstArticleLink throw: a call returns a value and the evaluation   *)
(* of the config module does not fail.  readdirSync is not guarded, and a *)
(* path that exists but is no directory makes it throw: this does not     *)
(* hold.                                                                  *)
(***************************************************************************)
C20_AnomaliesNeverThrow ==
    /\ ret.status # "threw"
    /\ pc # "failed"

(***************************************************************************)
(* C21.  Collections are processed independently: a generateSidebar call  *)
(* leaves the mappings of every other route prefix as they were and       *)
(* returns a value made from the listing of its own directory alone, and  *)
(* generateAllSidebars returns, under each of its two keys, the value     *)
(* made from that collection's directory alone.                           *)
(***************************************************************************)
NavigationOf(dirPath, groupText) ==
    IF NodeOf(dirPath).kind = "absent"
    THEN <<>>
    ELSE <<[text |-> groupText,
            items |-> SidebarItems(SortedItems(NodeOf(dirPath).files, dirPath),
                                   RoutePrefix(dirPath))]>>

OthersUntouched(key) ==
    /\ Len(routeMappings') >= Len(routeMappings)
    /\ \A i \in 1..Len(routeMappings) :
          /\ routeMappings'[i].key = routeMappings[i].key
          /\ routeMappings[i].key # key => routeMappings'[i] = routeMappings[i]
    /\ \A i \in (Len(routeMappings) + 1)..Len(routeMappings') :
          routeMappings'[i].key = key

GenerateAllSidebarsStep ==
    /\ ret'.op = "generateAllSidebars"
    /\ <<ret, routeMappings>>' # <<ret, routeMappings>>

C21_CollectionsAreIndependent ==
    [][/\ GenerateSidebarStep =>
             /\ OthersUntouched(RoutePrefix(ret'.dirPath))
             /\ ret'.sidebar = NavigationOf(ret'.dirPath, ret'.groupText)
       /\ GenerateAllSidebarsStep =>
             /\ DOMAIN ret'.sidebars = {InterviewKey, Vue3Key}
             /\ \A dirPath \in Dirs :
                   ret'.sidebars[KeyOf(dirPath)]
                       = NavigationOf(dirPath, TitleOf(dirPath))]_vars

\* docs/vue3-best-practices has just been scanned while mappings of
\* docs/interview were held, and both directories hold a numbered file.
C21_Witness ==
    /\ ret.op = "generateSidebar"
    /\ ret.dirPath = Vue3Dir
    /\ ret.sidebar # <<>>
    /\ Len(ret.sidebar[1].items) = 1
    /\ Len(MappingsOf(routeMappings, RoutePrefix(InterviewDir))) = 2
    /\ Len(MappingsOf(routeMappings, RoutePrefix(Vue3Dir))) = 1
    /\ routeMappings[1].key = RoutePrefix(InterviewDir)

(***************************************************************************)
(* C22.  Every identifier has the same fixed length: generateHash returns *)
(* exactly 8 lowercase hexadecimal digits for every path, the empty       *)
(* string included, and every hash held in routeMappings, embedded in a   *)
(* returned link or in a rewrite target has that form.                    *)
(***************************************************************************)
HexDigit(c) ==
    c \in {"0", "1", "2", "3", "4", "5", "6", "7", "8", "9",
           "a", "b", "c", "d", "e", "f"}

FixedLengthHex(h) ==
    /\ Len(h) = 8
    /\ \A i \in 1..Len(h) : HexDigit(CharAt(h, i))

HashInputs ==
    {""} \cup {dirPath \o "/" \o name : dirPath \in Dirs, name \in BuildNames}
         \cup {Vue3Dir \o "/" \o "2. B.c .md",
               InterviewDir \o "/" \o "7.LPB.md", Vue3Dir \o "/" \o "1.YIA.md"}

\* The hash embedded in `${routePrefix}/${hash}`.
HashOfLink(link, routePrefix) ==
    SubSeq(link, Len(routePrefix) + 2, Len(link))

\* The hash embedded in `${dirName}/${hash}.md`.
HashOfTarget(target, dirName) ==
    SubSeq(target, Len(dirName) + 2, Len(target) - 3)

GroupLinksHex(sidebar, routePrefix) ==
    \A g \in 1..Len(sidebar) : \A i \in 1..Len(sidebar[g].items) :
        /\ StartsWith(sidebar[g].items[i].link, routePrefix \o "/")
        /\ FixedLengthHex(HashOfLink(sidebar[g].items[i].link, routePrefix))

C22_IdentifiersHaveFixedLength ==
    /\ \A filePath \in HashInputs : FixedLengthHex(generateHash(filePath))
    /\ \A i \in 1..Len(routeMappings) : \A j \in 1..Len(routeMappings[i].mappings) :
          FixedLengthHex(routeMappings[i].mappings[j].hash)
    /\ ret.op = "generateSidebar" =>
          GroupLinksHex(ret.sidebar, RoutePrefix(ret.dirPath))
    /\ \A dirPath \in Dirs :
          KeyOf(dirPath) \in DOMAIN ret.sidebars =>
              GroupLinksHex(ret.sidebars[KeyOf(dirPath)], RoutePrefix(dirPath))
    /\ (ret.op = "getFirstArticleLink" /\ ret.link # "/") =>
          /\ StartsWith(ret.link, RoutePrefix(ret.dirPath) \o "/")
          /\ FixedLengthHex(HashOfLink(ret.link, RoutePrefix(ret.dirPath)))
    /\ \A k \in DOMAIN ret.rewrites :
          \E dirPath \in Dirs :
              /\ StartsWith(ret.rewrites[k], CollectionOf(dirPath) \o "/")
              /\ EndsWith(ret.rewrites[k], ".md")
              /\ FixedLengthHex(HashOfTarget(ret.rewrites[k], CollectionOf(dirPath)))

\* generateRewrites has returned rules for both collections.
C22_Witness ==
    /\ ret.op = "generateRewrites"
    /\ Cardinality(DOMAIN ret.rewrites) = 2
    /\ \E i \in 1..Len(routeMappings) :
          /\ routeMappings[i].key = RoutePrefix(Vue3Dir)
          /\ Len(routeMappings[i].mappings) = 1
          /\ routeMappings[i].mappings[1].hash = "5ea2ec2d"

(***************************************************************************)
(* C23.  The debug dump is regenerated wholesale and is write-only: each  *)
(* saveRouteMappings call replaces the whole content of                    *)
(* route-mappings.json with the serialisation ({hash, file, text} per      *)
(* collection) of the mappings held at the call, whatever the file held    *)
(* before; no other call changes the file; and nothing the file held ever  *)
(* shows in the mappings, a link or a rewrite rule.                        *)
(***************************************************************************)
SaveStep ==
    /\ ret'.op = "saveRouteMappings"
    /\ <<ret, dumpFile>>' # <<ret, dumpFile>>

SerialisedNow ==
    [i \in 1..Len(routeMappings) |->
        [key |-> routeMappings[i].key,
         entries |-> [j \in 1..Len(routeMappings[i].mappings) |->
                        [hash |-> routeMappings[i].mappings[j].hash,
                         file |-> routeMappings[i].mappings[j].originalPath,
                         text |-> routeMappings[i].mappings[j].text]]]]

\* The numbered files of the tree under dirPath.
EligibleIn(dirPath) ==
    IF NodeOf(dirPath).kind = "dir"
    THEN {name \in Range(NodeOf(dirPath).files) : Eligible(name)}
    ELSE {}

\* Mappings, links and rules are those of the files of the tree.
MadeFromTheTree ==
    /\ \A i \in 1..Len(routeMappings) :
          \E dirPath \in Dirs :
              /\ routeMappings[i].key = RoutePrefix(dirPath)
              /\ \A j \in 1..Len(routeMappings[i].mappings) :
                    \E name \in EligibleIn(dirPath) :
                        routeMappings[i].mappings[j]
                            = [hash |-> generateHash(dirPath \o "/" \o name),
                               originalPath |-> StripMd(name),
                               text |-> LabelOf(name)]
    /\ \A k \in DOMAIN ret.rewrites :
          \E dirPath \in Dirs : \E name \in EligibleIn(dirPath) :
              k = RuleKey(dirPath, name) /\ ret.rewrites[k] = RuleValue(dirPath, name)
    /\ ret.op = "generateRewrites" => ret.rewrites = RewritesOf(routeMappings)
    /\ ret.op = "getFirstArticleLink" =>
          \/ EligibleIn(ret.dirPath) = {} /\ ret.link = "/"
          \/ \E name \in EligibleIn(ret.dirPath) :
                ret.link = RoutePrefix(ret.dirPath) \o "/"
                              \o generateHash(ret.dirPath \o "/" \o name)
    /\ ret.op = "generateSidebar" =>
          ret.sidebar = NavigationOf(ret.dirPath, ret.groupText)

C23_DumpIsReplacedAndNeverRead ==
    /\ []MadeFromTheTree
    /\ [][/\ SaveStep =>
                /\ dumpFile' = [exists |-> TRUE,
                                path |-> ResolvePath(cwd, "route-mappings.json"),
                                content |-> SerialisedNow]
                /\ routeMappings' = routeMappings
          /\ ~SaveStep => dumpFile' = dumpFile
          /\ dumpFile.exists => dumpFile'.exists]_vars

\* The file held the dump of an earlier session, it has been written twice
\* since with a scan in between, and the rewrites have been generated.
C23_Witness ==
    /\ dumpFile.exists
    /\ dumpFile.content = SerialisedNow
    /\ Len(routeMappings) = 2
    /\ Len(routeMappings[1].mappings) = 2
    /\ ret.op = "generateRewrites"
    /\ Cardinality(DOMAIN ret.rewrites) = 2

(***************************************************************************)
(* C24.  generateRewrites reflects only what generateSidebar has already  *)
(* registered: called while nothing is registered it returns the empty    *)
(* table, every rule it returns belongs to a collection the registry      *)
(* holds, and called after generateAllSidebars it returns a rule for      *)
(* every link of the sidebars that call returned.                         *)
(***************************************************************************)
GenerateRewritesStep ==
    /\ ret'.op = "generateRewrites"
    /\ ret' # ret

\* The rewrite target that serves the link `${routePrefix}/${hash}`.
TargetOfLink(link) == SubSeq(link, 2, Len(link)) \o ".md"

Served(link, rewrites) ==
    \E k \in DOMAIN rewrites : rewrites[k] = TargetOfLink(link)

SidebarLinks(sidebars) ==
    UNION {UNION {{sidebars[k][g].items[i].link : i \in 1..Len(sidebars[k][g].items)}
                  : g \in 1..Len(sidebars[k])}
           : k \in DOMAIN sidebars}

C24_RewritesFollowTheScans ==
    [][GenerateRewritesStep =>
          /\ routeMappings = <<>> => ret'.rewrites = EmptyTable
          /\ \A k \in DOMAIN ret'.rewrites :
                \E dirPath \in Dirs :
                    /\ StartsWith(k, CollectionOf(dirPath) \o "/")
                    /\ MappingsOf(routeMappings, RoutePrefix(dirPath)) # <<>>
          /\ ret.op = "generateAllSidebars" =>
                \A link \in SidebarLinks(ret.sidebars) :
                    Served(link, ret'.rewrites)]_vars

\* generateRewrites has been called right after a generateAllSidebars that
\* returned a link in each collection.
C24_Witness ==
    /\ ret.op = "generateRewrites"
    /\ Len(routeMappings) = 2
    /\ \A i \in 1..2 : Len(routeMappings[i].mappings) = 1
    /\ ret.rewrites = AlphaRules

\* generateRewrites has been called before any scan.
C24_WitnessEmpty ==
    /\ ret.op = "generateRewrites"
    /\ routeMappings = <<>>
    /\ ret.rewrites = EmptyTable

(***************************************************************************)
(* C25.  Navigation and rewrite table agree: for every item link          *)
(* '/<prefix>/<hash>' a scan has returned, the table generateRewrites     *)
(* builds holds a rule whose key is the file that produced the item and   *)
(* whose value is '<prefix>/<hash>.md'; a rule once present stays as it   *)
(* is, so no link a scan returned is left without a rule.                 *)
(***************************************************************************)
LinksServed(dirPath, items, sidebarItems, rewrites) ==
    /\ Len(sidebarItems) = Len(items)
    /\ \A i \in 1..Len(sidebarItems) :
          /\ RuleKey(dirPath, items[i].filename) \in DOMAIN rewrites
          /\ rewrites[RuleKey(dirPath, items[i].filename)]
                = TargetOfLink(sidebarItems[i].link)
          /\ StartsWith(sidebarItems[i].link, RoutePrefix(dirPath) \o "/")

GroupsServed(dirPath, items, sidebar, rewrites) ==
    \A g \in 1..Len(sidebar) : LinksServed(dirPath, items, sidebar[g].items, rewrites)

RulesStay ==
    \A k \in DOMAIN RewritesOf(routeMappings) :
        /\ k \in DOMAIN RewritesOf(routeMappings')
        /\ RewritesOf(routeMappings')[k] = RewritesOf(routeMappings)[k]

C25_EveryLinkHasItsRule ==
    /\ [](/\ (ret.op = "generateSidebar" /\ ret.status = "returned") =>
                GroupsServed(ret.dirPath, ret.items[ret.dirPath], ret.sidebar,
                             RewritesOf(routeMappings))
          /\ (ret.op = "generateAllSidebars" /\ ret.status = "returned") =>
                \A dirPath \in Dirs :
                    GroupsServed(dirPath, ret.items[dirPath],
                                 ret.sidebars[KeyOf(dirPath)],
                                 RewritesOf(routeMappings))
          /\ ret.op = "generateRewrites" => ret.rewrites = RewritesOf(routeMappings))
    /\ [][routeMappings' # routeMappings => RulesStay]_vars

\* A scan of docs/interview has returned the link of 1.Alpha.md after
\* docs/vue3-best-practices was scanned twice.
C25_Witness ==
    /\ ret.op = "generateSidebar"
    /\ ret.dirPath = InterviewDir
    /\ ret.sidebar # <<>>
    /\ Len(ret.sidebar[1].items) = 1
    /\ ret.sidebar[1].items[1].link = AlphaLink(InterviewDir)
    /\ Len(MappingsOf(routeMappings, RoutePrefix(Vue3Dir))) = 2
    /\ RewritesOf(routeMappings) = AlphaRules

(***************************************************************************)
(* C26.  Rewrite rules of different collections never interfere: the      *)
(* rules of two collections with distinct route prefixes share no key and *)
(* no value, and the table holds the rules of each collection as that     *)
(* collection alone produces them, even when both directories hold a file *)
(* of the same name or files whose identifiers coincide.                  *)
(***************************************************************************)
\* The rules lines 204-214 make of the mappings of one collection.
RulesOfCollection(dirPath) ==
    RewriteMappings(EmptyTable, RoutePrefix(dirPath),
                    MappingsOf(routeMappings, RoutePrefix(dirPath)))

TargetsOfCollection(dirPath) ==
    {RulesOfCollection(dirPath)[k] : k \in DOMAIN RulesOfCollection(dirPath)}

C26_CollectionsShareNoRule ==
    LET table == RewritesOf(routeMappings)
    IN  /\ DOMAIN RulesOfCollection(InterviewDir)
              \cap DOMAIN RulesOfCollection(Vue3Dir) = {}
        /\ TargetsOfCollection(InterviewDir) \cap TargetsOfCollection(Vue3Dir) = {}
        /\ DOMAIN table = DOMAIN RulesOfCollection(InterviewDir)
                              \cup DOMAIN RulesOfCollection(Vue3Dir)
        /\ \A dirPath \in Dirs : \A k \in DOMAIN RulesOfCollection(dirPath) :
              table[k] = RulesOfCollection(dirPath)[k]
        /\ ret.op = "generateRewrites" => ret.rewrites = table

\* Both collections are registered with files whose identifiers coincide,
\* and generateRewrites has returned their two rules.
C26_Witness ==
    /\ ret.op = "generateRewrites"
    /\ Cardinality(DOMAIN ret.rewrites) = 2
    /\ MappingsOf(routeMappings, RoutePrefix(InterviewDir)) # <<>>
    /\ MappingsOf(routeMappings, RoutePrefix(Vue3Dir)) # <<>>
    /\ MappingsOf(routeMappings, RoutePrefix(InterviewDir))[1].hash = "a9bd5f05"
    /\ MappingsOf(routeMappings, RoutePrefix(Vue3Dir))[1].hash = "a9bd5f05"

\* Both collections are registered with a file named 1.Alpha.md.
C26_WitnessSameName ==
    /\ ret.op = "generateRewrites"
    /\ ret.rewrites = AlphaRules

(***************************************************************************)
(* C27.  getFirstArticleLink is read-only with respect to the mapping     *)
(* state: a call leaves routeMappings as it was, creating no key and      *)
(* registering no mapping, so what generateRewrites returns and what      *)
(* saveRouteMappings writes are the same before and after it.             *)
(***************************************************************************)
GetFirstArticleLinkStep ==
    /\ ret'.op = "getFirstArticleLink"
    /\ <<ret, routeMappings>>' # <<ret, routeMappings>>

C27_FirstLinkLeavesMappingsAlone ==
    [][GetFirstArticleLinkStep =>
          /\ routeMappings' = routeMappings
          /\ RewritesOf(routeMappings') = RewritesOf(routeMappings)
          /\ dumpFile' = dumpFile
          /\ fs' = fs]_vars

\* getFirstArticleLink has returned the link of a collection that was never
\* scanned, after the other collection was scanned and dumped.
C27_Witness ==
    /\ ret.op = "getFirstArticleLink"
    /\ ret.dirPath = Vue3Dir
    /\ ret.link = AlphaLink(Vue3Dir)
    /\ Len(routeMappings) = 1
    /\ routeMappings[1].key = RoutePrefix(InterviewDir)
    /\ Len(routeMappings[1].mappings) = 2
    /\ dumpFile.exists
    /\ dumpFile.content = SerialisedNow

(***************************************************************************)
(* C28.  State is unchanged on the missing-directory path: a              *)
(* generateSidebar call for a directory that does not exist leaves        *)
(* routeMappings exactly as it was, creating no key and adding no         *)
(* mapping, so a later generateRewrites returns no rule for a collection  *)
(* whose key no successful scan has created.                              *)
(***************************************************************************)
Missing(dirPath) == NodeOf(dirPath).kind = "absent"

RulesUnder(rewrites, dirPath) ==
    {k \in DOMAIN rewrites : StartsWith(k, CollectionOf(dirPath) \o "/")}

C28_MissingDirectoryLeavesMappings ==
    [][/\ (GenerateSidebarStep /\ Missing(ret'.dirPath)) =>
             /\ routeMappings' = routeMappings
             /\ ret'.status = "returned"
             /\ ret'.sidebar = <<>>
       /\ GenerateAllSidebarsStep =>
             \A dirPath \in Dirs :
                 Missing(dirPath) =>
                     /\ KeyIndex(routeMappings', RoutePrefix(dirPath))
                           = KeyIndex(routeMappings, RoutePrefix(dirPath))
                     /\ MappingsOf(routeMappings', RoutePrefix(dirPath))
                           = MappingsOf(routeMappings, RoutePrefix(dirPath))
       /\ GenerateRewritesStep =>
             \A dirPath \in Dirs :
                 KeyIndex(routeMappings, RoutePrefix(dirPath)) = 0 =>
                     RulesUnder(ret'.rewrites, dirPath) = {}]_vars

\* docs/vue3-best-practices is missing and has just been scanned, with no
\* key created for it, while docs/interview is registered.
C28_Witness ==
    /\ ret.op = "generateSidebar"
    /\ ret.dirPath = Vue3Dir
    /\ Missing(Vue3Dir)
    /\ Warned(Vue3Dir)
    /\ KeyIndex(routeMappings, RoutePrefix(Vue3Dir)) = 0
    /\ Len(MappingsOf(routeMappings, RoutePrefix(InterviewDir))) = 1

\* docs/interview was scanned, then removed and scanned again: its rule is
\* the one the earlier scan recorded.
C28_WitnessEarlierScan ==
    /\ ret.op = "generateSidebar"
    /\ ret.dirPath = InterviewDir
    /\ Missing(InterviewDir)
    /\ Warned(InterviewDir)
    /\ Len(MappingsOf(routeMappings, RoutePrefix(InterviewDir))) = 1

(***************************************************************************)
(* C29.  The rewrite table is insensitive to repeated scans of an         *)
(* unchanged directory: generateRewrites leaves routeMappings as it is,   *)
(* two consecutive generateRewrites calls return equal tables, and after  *)
(* any number n >= 1 of scans of a directory the rules of its collection  *)
(* are those returned after one scan, although routeMappings (and the     *)
(* dump written from it) holds n records per file.                        *)
(***************************************************************************)
\* The rules of the collection after exactly one scan of a fresh registry.
RulesAfterOneScan(dirPath) ==
    RewritesOf(SidebarCall(<<>>, dirPath, TitleOf(dirPath)).rm)

\* How many records of the collection's mapping list come from the file.
RecordsOf(dirPath, name) ==
    LET pushed == MappingsOf(routeMappings, RoutePrefix(dirPath))
    IN  Cardinality({j \in 1..Len(pushed) : pushed[j].originalPath = StripMd(name)})

C29_RepeatedScansSameRules ==
    /\ [](/\ \A dirPath \in Dirs :
                MappingsOf(routeMappings, RoutePrefix(dirPath)) # <<>> =>
                    /\ RulesOfCollection(dirPath) = RulesAfterOneScan(dirPath)
                    /\ \A name \in EligibleIn(dirPath) :
                          /\ RecordsOf(dirPath, name) >= 1
                          /\ RecordsOf(dirPath, name) * Cardinality(EligibleIn(dirPath))
                                = Len(MappingsOf(routeMappings, RoutePrefix(dirPath)))
          /\ ret.op = "generateRewrites" => ret.rewrites = RewritesOf(routeMappings))
    /\ [][/\ GenerateRewritesStep => routeMappings' = routeMappings
          /\ (ret.op = "generateRewrites" /\ ret'.op = "generateRewrites") =>
                ret'.rewrites = ret.rewrites]_vars

\* docs/interview has been scanned three times, the dump written, and
\* generateRewrites has returned its one rule.
C29_Witness ==
    /\ ret.op = "generateRewrites"
    /\ RecordsOf(InterviewDir, "1.Alpha.md") = 3
    /\ Cardinality(RulesUnder(ret.rewrites, InterviewDir)) = 1
    /\ dumpFile.exists
    /\ dumpFile.content = SerialisedNow
    /\ Len(dumpFile.content[1].entries) = 3

====
